---- MODULE Spec2Model ----
(***************************************************************************)
(* TrafficSystemManager (src/src/models/traffic_system.py) together with   *)
(* the two placeholder engines (SignalOptimizer, TrafficSimulator) as a    *)
(* state machine.  One action per coroutine of the manager; a coroutine    *)
(* that never reaches a real suspension point runs as one atomic step of   *)
(* the single-threaded event loop.  simulate_traffic_update suspends only  *)
(* in asyncio.sleep, so one loop iteration (condition + tick body) is one  *)
(* step.                                                                   *)
(*                                                                         *)
(* Time is counted in hours.  Wait times and the metrics derived from them *)
(* are kept exact: wait times are whole seconds (the draws below make      *)
(* 20 * volume / 50 + noise an integer), rounded metrics are in            *)
(* hundredths.                                                             *)
(***************************************************************************)
EXTENDS Integers, Sequences, FiniteSets, TLC

VARIABLES
    intersections,      \* self.intersections: id -> Intersection
    traffic_data_history, \* self.traffic_data_history: sequence of TrafficData
    system_metrics,     \* self.system_metrics: key -> value
    is_running,         \* self.is_running
    start_time,         \* self.start_time: <<>> is None, <<t>> a datetime
    optimizer_running,  \* SignalOptimizer.running
    simulator_running,  \* TrafficSimulator.running
    loop_pc,            \* simulate_traffic_update: "idle" (no task), "waiting" (task
                        \* created or asleep in asyncio.sleep, to be resumed)
    now,                \* datetime.now(), in hours
    stop_signalled,     \* history variable: cleanup() stopped the running system
                        \* since the waiting loop task last ran
    frame               \* locals of simulate_traffic_update while it is inside a
                        \* tick (sample, position, draw, filtered list), else <<>>

vars == <<intersections, traffic_data_history, system_metrics, is_running,
          start_time, optimizer_running, simulator_running, loop_pc, now,
          stop_signalled, frame>>

----------------------------------------------------------------------------
(* Bounds of the model *)

MaxDays == 1
MaxHist == 2

(* Program constants, scaled where the original is too large to enumerate *)

HoursPerDay == 24
RetentionDays == 7
DefaultLookbackHours == 24
MinPerCity == 1
MaxPerCity == 2
SampleCap == 2
BaseWait == 20
VolumeNorm == 50
QueueDivisor == 5
EfficiencyCap == 1500

Directions == {"north", "south", "east", "west"}

\* cities = [...] of initialize, cut to its first entry
Cities == <<"New York">>

\* city_name.lower().replace(' ', '_')
Slug(city) == CASE city = "New York" -> "new_york"
                [] OTHER -> city

\* str.lower()
Lower(city) == CASE city = "New York" -> "new york"
                 [] OTHER -> city

Max(a, b) == IF a >= b THEN a ELSE b
Min(a, b) == IF a <= b THEN a ELSE b

----------------------------------------------------------------------------
(* Intersection and TrafficData records *)

\* mutant of DefaultSignalStates: a default that forgets two approaches
DefaultSignalStatesTwoWay == [north |-> "red", south |-> "red"]

DefaultSignalStates ==
    [north |-> "red", south |-> "red", east |-> "green", west |-> "green"]

DefaultTimingPlan ==
    [north_south_green |-> 45, north_south_yellow |-> 5, east_west_green |-> 40,
     east_west_yellow |-> 5, all_red_clearance |-> 2]

\* Intersection(...) followed by __post_init__: empty maps get the defaults
\* (location, two random floats that nothing reads, is left out)
Intersection(id, name, signal_states, timing_plan, volume, wait_times, t, city) ==
    [id |-> id,
     name |-> name,
     signal_states |-> IF DOMAIN signal_states = {} THEN DefaultSignalStates
                       ELSE signal_states,
     timing_plan |-> IF DOMAIN timing_plan = {} THEN DefaultTimingPlan
                     ELSE timing_plan,
     traffic_volume |-> volume,
     wait_times |-> wait_times,
     last_updated |-> t,
     city |-> city]

\* TrafficData(...).  A dict field is a reference: vehicle_count_of tells whose
\* dict vehicle_count is, <<>> for a dict of its own, <<id>> for the live
\* traffic_volume dict of intersection id.
TrafficData(id, t, vehicle_count, owner, average_speed, queue_length, peds, emerg) ==
    [intersection_id |-> id, timestamp |-> t, vehicle_count |-> vehicle_count,
     vehicle_count_of |-> owner,
     average_speed |-> average_speed, queue_length |-> queue_length,
     pedestrian_count |-> peds, emergency_vehicles |-> emerg]

\* f"{slug}_int_{i:04d}": the slug and the index, which the format keeps apart
IntersectionId(city, i) == <<Slug(city), i>>

\* f"{city_name} Intersection {i+1}"
IntersectionName(city, i) == <<city, "Intersection", i + 1>>

UnknownId == <<"nonexistent", 0>>

----------------------------------------------------------------------------
(* Draws of the random source, taken from small sets *)

\* random.randint(10, 100) for the four directions of a new intersection
InitVolumes == {[d \in Directions |-> 10]}

\* random.uniform(10, 60) for the four directions of a new intersection
InitWaits == {[d \in Directions |-> 10]}

\* per sampled intersection: random.randint(-10, 10) and random.uniform(-5, 5)
\* for each direction, random.uniform(15, 45) for each direction,
\* random.randint(0, 20), random.choices([0, 1], weights=[95, 5])[0]
TickDraws ==
    {[change |-> [d \in Directions |-> -10], noise |-> [d \in Directions |-> -5],
      speed |-> [d \in Directions |-> 30], pedestrians |-> 0, emergency |-> 0],
     [change |-> [d \in Directions |-> IF d = "north" THEN 10 ELSE 0],
      noise |-> [d \in Directions |-> 5],
      speed |-> [d \in Directions |-> 30], pedestrians |-> 20, emergency |-> 1]}

\* arguments of the calls made from outside the manager
RequestIds == {IntersectionId(Cities[1], 0), UnknownId}
AddIds == {IntersectionId(Cities[1], 0)}
RequestPlans == {[north_south_green |-> 0], [north_south_green |-> 60]}
\* age of the observation handed to add_traffic_data: fresh, 6.5 days, 8 days
RequestAges == {0, 6 * HoursPerDay + 12, 8 * HoursPerDay}
RequestHours == {DefaultLookbackHours, 30 * HoursPerDay}

----------------------------------------------------------------------------
(* Intersection registry *)

\* mutant of FirstIndex: indices continue after the intersections already registered
FirstIndexAfterExisting == Cardinality(DOMAIN intersections)

\* range(intersection_count) starts at 0 on every call
FirstIndex == 0

\* _create_city_intersections: `count` intersections, indices from FirstIndex
CreateCityIntersections(city, count, volume, wait, t) ==
    [id \in {IntersectionId(city, i) : i \in FirstIndex..(FirstIndex + count - 1)} |->
        Intersection(id, IntersectionName(city, id[2]), <<>>, <<>>, volume, wait, t,
                     city)]

\* the for loop of initialize over the first k cities: the registry after the
\* assignments self.intersections[intersection.id] = intersection
RECURSIVE InitializeCities(_, _, _, _, _, _)
InitializeCities(registry, k, counts, volume, wait, t) ==
    IF k = 0 THEN registry
    ELSE LET before == InitializeCities(registry, k - 1, counts, volume, wait, t)
             created == CreateCityIntersections(Cities[k], counts[k], volume, wait, t)
         IN  [id \in DOMAIN before \cup DOMAIN created |->
                 IF id \in DOMAIN created THEN created[id] ELSE before[id]]

\* intersection_count of initialize: incremented once per created intersection
RECURSIVE CreatedCount(_, _)
CreatedCount(k, counts) ==
    IF k = 0 THEN 0 ELSE CreatedCount(k - 1, counts) + counts[k]

\* get_intersection_count
get_intersection_count == Cardinality(DOMAIN intersections)

\* get_intersection: self.intersections.get(id), <<>> for None
get_intersection(id) ==
    IF id \in DOMAIN intersections THEN <<intersections[id]>> ELSE <<>>

\* get_intersections_by_city, as the set of ids returned
get_intersections_by_city(city) ==
    {id \in DOMAIN intersections : Lower(intersections[id].city) = Lower(city)}

\* mutant of update_intersection_timing: no membership test, the id is written
update_intersection_timing_unguarded(registry, id, plan, t) ==
    [ret |-> TRUE,
     intersections |->
         [i \in DOMAIN registry \cup {id} |->
             IF i # id THEN registry[i]
             ELSE IF id \in DOMAIN registry
                  THEN [registry[id] EXCEPT !.timing_plan = plan, !.last_updated = t]
                  ELSE Intersection(id, id, <<>>, plan, [d \in Directions |-> 0],
                                    [d \in Directions |-> 0], t, "Default City")]]

\* update_intersection_timing: the value returned and the registry left behind
update_intersection_timing(registry, id, plan, t) ==
    IF id \in DOMAIN registry
    THEN [ret |-> TRUE,
          intersections |-> [registry EXCEPT ![id].timing_plan = plan,
                                             ![id].last_updated = t]]
    ELSE [ret |-> FALSE, intersections |-> registry]

----------------------------------------------------------------------------
(* History store *)

\* mutant of Retained: nothing is pruned
RetainedAlways(data, t) == TRUE

\* the list comprehension of add_traffic_data: data.timestamp > cutoff_time
Retained(data, t) == data.timestamp > t - RetentionDays * HoursPerDay

RECURSIVE Prune(_, _)
Prune(history, t) ==
    IF history = <<>> THEN <<>>
    ELSE IF Retained(Head(history), t)
         THEN <<Head(history)>> \o Prune(Tail(history), t)
         ELSE Prune(Tail(history), t)

\* add_traffic_data: append, then keep the last 7 days
add_traffic_data(history, data, t) == Prune(Append(history, data), t)

\* mutant of get_traffic_data: data.timestamp >= cutoff_time
RECURSIVE get_traffic_data_inclusive(_, _, _, _)
get_traffic_data_inclusive(history, id, hours, t) ==
    IF history = <<>> THEN <<>>
    ELSE LET data == Head(history)
             rest == get_traffic_data_inclusive(Tail(history), id, hours, t)
         IN  IF data.intersection_id = id /\ data.timestamp >= t - hours
             THEN <<data>> \o rest
             ELSE rest

\* get_traffic_data
RECURSIVE get_traffic_data(_, _, _, _)
get_traffic_data(history, id, hours, t) ==
    IF history = <<>> THEN <<>>
    ELSE LET data == Head(history)
             rest == get_traffic_data(Tail(history), id, hours, t)
         IN  IF data.intersection_id = id /\ data.timestamp > t - hours
             THEN <<data>> \o rest
             ELSE rest

----------------------------------------------------------------------------
(* Metrics and health *)

RECURSIVE SumOver(_, _)
SumOver(f, S) ==
    IF S = {} THEN 0
    ELSE LET x == CHOOSE y \in S : TRUE IN f[x] + SumOver(f, S \ {x})

\* sum(sum(intersection.wait_times.values()) for intersection in ...)
TotalWaitTime(registry) ==
    SumOver([id \in DOMAIN registry |->
                SumOver(registry[id].wait_times, DOMAIN registry[id].wait_times)],
            DOMAIN registry)

\* round(num / den, 2) of Python, on the value in hundredths: ties go to even
RoundHalfEven(num, den) ==
    LET q == num \div den
        r == num % den
    IN  IF 2 * r < den THEN q
        ELSE IF 2 * r > den THEN q + 1
        ELSE IF q % 2 = 0 THEN q ELSE q + 1

\* total_wait_time / (len(self.intersections) * 4), rounded, in hundredths
AverageWaitTime(registry) ==
    IF DOMAIN registry = {} THEN 0
    ELSE RoundHalfEven(TotalWaitTime(registry) * 100, Cardinality(DOMAIN registry) * 4)

\* calculate_system_efficiency: the float division by baseline_wait_time raises
\* ZeroDivisionError when the average wait is 0.0; otherwise the capped improvement,
\* here rounded to hundredths as get_system_metrics rounds it.
\*   avg = total / (4n), baseline = avg * 115/100,
\*   (baseline - avg) / baseline * 100 = (115 total - 100 total) * 100 / (115 total)
calculate_system_efficiency(registry) ==
    IF DOMAIN registry = {} THEN [raised |-> FALSE, value |-> 0]
    ELSE LET total == TotalWaitTime(registry)
             baseline == 115 * total
         IN  IF baseline = 0 THEN [raised |-> TRUE, value |-> 0]
             ELSE [raised |-> FALSE,
                   value |-> Min(RoundHalfEven((baseline - 100 * total) * 100 * 100,
                                               baseline),
                                 EfficiencyCap)]

\* (datetime.now() - self.start_time).total_seconds() if self.start_time else 0
Uptime(start, t) == IF start = <<>> THEN 0 ELSE (t - start[1]) * 3600

\* mutant of DictUpdate: keys already present keep their value
DictUpdateKeepOld(old, new) ==
    [k \in DOMAIN old \cup DOMAIN new |-> IF k \in DOMAIN old THEN old[k] ELSE new[k]]

\* dict.update
DictUpdate(old, new) ==
    [k \in DOMAIN old \cup DOMAIN new |-> IF k \in DOMAIN new THEN new[k] ELSE old[k]]

\* get_system_metrics: the stored dict when not running; otherwise the stored dict
\* updated from the current state, unless calculate_system_efficiency raised
get_system_metrics(stored, running, registry, history, start, t) ==
    IF ~running THEN [raised |-> FALSE, metrics |-> stored]
    ELSE LET efficiency == calculate_system_efficiency(registry)
         IN  IF efficiency.raised THEN [raised |-> TRUE, metrics |-> stored]
             ELSE [raised |-> FALSE,
                   metrics |-> DictUpdate(stored,
                       [total_intersections |-> Cardinality(DOMAIN registry),
                        average_wait_time |-> AverageWaitTime(registry),
                        efficiency_improvement |-> efficiency.value,
                        system_uptime |-> Uptime(start, t),
                        cities_served |->
                            Cardinality({registry[id].city : id \in DOMAIN registry}),
                        data_points_processed |-> Len(history),
                        last_updated |-> t])]

\* mutant of HealthComponents: the running flag is not consulted
HealthComponentsAssumeRunning(running, registry, history) ==
    [traffic_system |-> TRUE,
     intersections |-> Cardinality(DOMAIN registry) > 0,
     data_processing |-> Len(history) >= 0,
     optimization_engine |-> TRUE,
     ml_models |-> TRUE]

\* the components dict of health_check
HealthComponents(running, registry, history) ==
    [traffic_system |-> running,
     intersections |-> Cardinality(DOMAIN registry) > 0,
     data_processing |-> Len(history) >= 0,
     optimization_engine |-> TRUE,
     ml_models |-> TRUE]

\* health_check
health_check(running, registry, history, start, t) ==
    LET components == HealthComponents(running, registry, history)
    IN  [all_systems_operational |-> \A k \in DOMAIN components : components[k],
         timestamp |-> t,
         components |-> components,
         uptime_seconds |-> Uptime(start, t)]

----------------------------------------------------------------------------
(* Simulation loop *)

\* mutant of LoopCondition: while True
LoopConditionAlways == TRUE

\* while self.is_running
LoopCondition == is_running

\* sample_size = min(100, len(self.intersections))
SampleSize(registry) == Min(SampleCap, Cardinality(DOMAIN registry))

\* mutant of Samples: random.choices, which draws with replacement
SamplesWithReplacement(registry) == [1..SampleSize(registry) -> DOMAIN registry]

\* random.sample(list(keys), sample_size): sequences of distinct ids
Samples(registry) ==
    {s \in [1..SampleSize(registry) -> DOMAIN registry] :
        \A i, j \in DOMAIN s : i # j => s[i] # s[j]}

\* mutant of NewVolume: no clamp at 0
NewVolumeUnclamped(volume, change) == [d \in Directions |-> volume[d] + change[d]]

\* new_volume = max(0, current_volume + change)
NewVolume(volume, change) == [d \in Directions |-> Max(0, volume[d] + change[d])]

\* new_wait_time = base_wait * (new_volume / 50) + noise, clamped at 0; the
\* volumes reached from the draws are multiples of 5, so the quotient is exact
NewWaitTimes(volume, noise) ==
    [d \in Directions |-> Max(0, (BaseWait * volume[d]) \div VolumeNorm + noise[d])]

\* mutant of QueueLength: round(wait / 5) in place of int(wait / 5)
QueueLengthRounded(wait) ==
    [d \in Directions |-> Max(0, (2 * wait[d] + QueueDivisor) \div (2 * QueueDivisor))]

\* max(0, int(wait_times[direction] / 5))
QueueLength(wait) == [d \in Directions |-> Max(0, wait[d] \div QueueDivisor)]

\* mutant of DictCopy: vehicle_count=intersection.traffic_volume, the live dict
DictShared(id) == <<id>>

\* intersection.traffic_volume.copy(): a dict of the observation's own
DictCopy(id) == <<>>

\* intersection.traffic_volume[direction] = new_volume writes the dict in place:
\* every stored observation whose vehicle_count is that dict shows the new values
WriteThrough(history, id, volume) ==
    [i \in 1..Len(history) |->
        IF history[i].vehicle_count_of = <<id>>
        THEN [history[i] EXCEPT !.vehicle_count = volume]
        ELSE history[i]]

\* mutant of TickIntersection: the intersection is rebuilt from the new values,
\* which puts the default signal states and timing plan back
TickIntersectionRebuilt(st, id, draw, t) ==
    LET old == st.intersections[id]
        volume == NewVolume(old.traffic_volume, draw.change)
        wait == NewWaitTimes(volume, draw.noise)
        data == TrafficData(id, t, volume, DictCopy(id), draw.speed,
                            QueueLength(wait), draw.pedestrians, draw.emergency)
    IN  [intersections |->
             [st.intersections EXCEPT ![id] = Intersection(id, old.name, <<>>, <<>>,
                                                           volume, wait, t, old.city)],
         history |-> add_traffic_data(WriteThrough(st.history, id, volume), data, t)]

\* the body of `for intersection_id in sample_intersections` for one id
TickIntersection(st, id, draw, t) ==
    LET old == st.intersections[id]
        volume == NewVolume(old.traffic_volume, draw.change)
        wait == NewWaitTimes(volume, draw.noise)
        data == TrafficData(id, t, volume, DictCopy(id), draw.speed,
                            QueueLength(wait), draw.pedestrians, draw.emergency)
    IN  [intersections |-> [st.intersections EXCEPT ![id].traffic_volume = volume,
                                                    ![id].wait_times = wait,
                                                    ![id].last_updated = t],
         history |-> add_traffic_data(WriteThrough(st.history, id, volume), data, t)]

\* the for loop over the first k sampled ids
RECURSIVE TickBody(_, _, _, _, _)
TickBody(st, sample, draws, k, t) ==
    IF k = 0 THEN st
    ELSE TickIntersection(TickBody(st, sample, draws, k - 1, t), sample[k], draws[k], t)

----------------------------------------------------------------------------
(* State machine *)

Init ==
    /\ intersections = <<>>
    /\ traffic_data_history = <<>>
    /\ system_metrics = [total_intersections |-> 0, average_wait_time |-> 0,
                         efficiency_improvement |-> 0, system_uptime |-> 0]
    /\ is_running = FALSE
    /\ start_time = <<>>
    /\ optimizer_running = FALSE
    /\ simulator_running = FALSE
    \* no task runs simulate_traffic_update yet
    /\ loop_pc = "idle"
    /\ now = 0
    /\ stop_signalled = FALSE
    /\ frame = <<>>

\* initialize()
Initialize ==
    \E counts \in [1..Len(Cities) -> MinPerCity..MaxPerCity],
       volume \in InitVolumes, wait \in InitWaits :
        /\ intersections' =
               InitializeCities(intersections, Len(Cities), counts, volume, wait, now)
        /\ system_metrics' =
               [system_metrics EXCEPT !.total_intersections =
                                          CreatedCount(Len(Cities), counts)]
        /\ start_time' = <<now>>
        /\ is_running' = TRUE
        /\ UNCHANGED <<traffic_data_history, optimizer_running, simulator_running,
                       loop_pc, now, stop_signalled, frame>>

\* update_intersection_timing(id, plan)
UpdateIntersectionTiming ==
    \E id \in RequestIds, plan \in RequestPlans :
        LET r == update_intersection_timing(intersections, id, plan, now)
        IN  /\ intersections' = r.intersections
            /\ UNCHANGED <<traffic_data_history, system_metrics, is_running,
                           start_time, optimizer_running, simulator_running,
                           loop_pc, now, stop_signalled, frame>>

\* add_traffic_data(data) called from outside the loop, with a timestamp that
\* may lie in the past
AddTrafficData ==
    \E id \in AddIds, age \in RequestAges :
        LET zero == [d \in Directions |-> 0]
            data == TrafficData(id, now - age, zero, <<>>, zero, zero, 0, 0)
            after == add_traffic_data(traffic_data_history, data, now)
        IN  /\ Len(after) <= MaxHist
            /\ traffic_data_history' = after
            /\ UNCHANGED <<intersections, system_metrics, is_running, start_time,
                           optimizer_running, simulator_running, loop_pc, now,
                           stop_signalled, frame>>

\* get_system_metrics()
GetSystemMetrics ==
    LET r == get_system_metrics(system_metrics, is_running, intersections,
                                traffic_data_history, start_time, now)
    IN  /\ system_metrics' = r.metrics
        /\ UNCHANGED <<intersections, traffic_data_history, is_running, start_time,
                       optimizer_running, simulator_running, loop_pc, now,
                       stop_signalled, frame>>

\* mutant of Cleanup: cleanup() also lets go of what the manager holds
CleanupReleasing ==
    /\ is_running' = FALSE
    /\ intersections' = <<>>
    /\ traffic_data_history' = <<>>
    /\ start_time' = <<>>
    /\ stop_signalled' = (stop_signalled \/ (is_running /\ loop_pc = "waiting"))
    /\ UNCHANGED <<system_metrics, optimizer_running, simulator_running, loop_pc, now, frame>>

\* cleanup()
Cleanup ==
    /\ is_running' = FALSE
    /\ stop_signalled' = (stop_signalled \/ (is_running /\ loop_pc = "waiting"))
    /\ UNCHANGED <<intersections, traffic_data_history, system_metrics, start_time,
                   optimizer_running, simulator_running, loop_pc, now, frame>>

\* a task is created for simulate_traffic_update(); it first runs at LoopTick/LoopExit
StartLoop ==
    /\ loop_pc = "idle"
    /\ loop_pc' = "waiting"
    /\ stop_signalled' = FALSE
    /\ UNCHANGED <<intersections, traffic_data_history, system_metrics, is_running,
                   start_time, optimizer_running, simulator_running, now, frame>>

\* the loop task runs (first run, or wake-up from asyncio.sleep): the condition
\* holds, the whole tick body runs, and the task sleeps again
LoopTick ==
    /\ loop_pc = "waiting"
    /\ LoopCondition
    /\ \E sample \in Samples(intersections) :
       \E draws \in [1..Len(sample) -> TickDraws] :
           LET st == TickBody([intersections |-> intersections,
                               history |-> traffic_data_history],
                              sample, draws, Len(sample), now)
           IN  /\ Len(st.history) <= MaxHist
               /\ intersections' = st.intersections
               /\ traffic_data_history' = st.history
    /\ loop_pc' = "waiting"
    /\ stop_signalled' = FALSE
    /\ UNCHANGED <<system_metrics, is_running, start_time, optimizer_running,
                   simulator_running, now, frame>>

\* the loop task runs and the condition fails: simulate_traffic_update returns
LoopExit ==
    /\ loop_pc = "waiting"
    /\ ~LoopCondition
    /\ loop_pc' = "idle"
    /\ stop_signalled' = FALSE
    /\ UNCHANGED <<intersections, traffic_data_history, system_metrics, is_running,
                   start_time, optimizer_running, simulator_running, now, frame>>

\* SignalOptimizer.start() / stop()
OptimizerStart ==
    /\ optimizer_running' = TRUE
    /\ UNCHANGED <<intersections, traffic_data_history, system_metrics, is_running,
                   start_time, simulator_running, loop_pc, now, stop_signalled, frame>>

OptimizerStop ==
    /\ optimizer_running' = FALSE
    /\ UNCHANGED <<intersections, traffic_data_history, system_metrics, is_running,
                   start_time, simulator_running, loop_pc, now, stop_signalled, frame>>

\* TrafficSimulator.start() / stop()
SimulatorStart ==
    /\ simulator_running' = TRUE
    /\ UNCHANGED <<intersections, traffic_data_history, system_metrics, is_running,
                   start_time, optimizer_running, loop_pc, now, stop_signalled, frame>>

SimulatorStop ==
    /\ simulator_running' = FALSE
    /\ UNCHANGED <<intersections, traffic_data_history, system_metrics, is_running,
                   start_time, optimizer_running, loop_pc, now, stop_signalled, frame>>

\* the wall clock advances by a day between two calls
AdvanceTime ==
    /\ now + HoursPerDay <= MaxDays * HoursPerDay
    /\ now' = now + HoursPerDay
    /\ UNCHANGED <<intersections, traffic_data_history, system_metrics, is_running,
                   start_time, optimizer_running, simulator_running, loop_pc,
                   stop_signalled, frame>>

\* The queries get_intersection_count, get_intersections_by_city,
\* get_traffic_data and health_check change nothing: they are the operators
\* above, evaluated on the current state.

\* the manager, its loop task and the clock
Next ==
    \/ Initialize
    \/ UpdateIntersectionTiming
    \/ AddTrafficData
    \/ Cleanup
    \/ StartLoop
    \/ LoopTick
    \/ LoopExit
    \/ AdvanceTime

Spec == Init /\ [][Next]_vars

\* with the metrics snapshot; observations come from the loop's ticks, and
\* update_intersection_timing writes only timing_plan and last_updated, which no
\* metric reads
NextMetrics ==
    \/ Initialize
    \/ GetSystemMetrics
    \/ Cleanup
    \/ StartLoop
    \/ LoopTick
    \/ LoopExit
    \/ AdvanceTime

MetricsSpec == Init /\ [][NextMetrics]_vars

\* with the two engines the process supervisor starts and stops (main.py, lifespan)
NextLifespan ==
    \/ Initialize
    \/ AddTrafficData
    \/ Cleanup
    \/ StartLoop
    \/ LoopTick
    \/ LoopExit
    \/ OptimizerStart
    \/ OptimizerStop
    \/ SimulatorStart
    \/ SimulatorStop
    \/ AdvanceTime

LifespanSpec == Init /\ [][NextLifespan]_vars

----------------------------------------------------------------------------
(* The loop statement by statement.  The event loop runs one coroutine at a   *)
(* time and switches only where the running one suspends; awaiting            *)
(* add_traffic_data, a coroutine that never suspends, is a plain call.        *)

\* mutant of SuspensionPoints: the tick runs where it can be preempted anywhere
PreemptionPoints ==
    {"idle", "waiting", "direction", "stamp", "record", "filter", "store"}

\* where another coroutine can run: no loop task, or the loop task is in
\* `await asyncio.sleep(10)` (or created and not yet run)
SuspensionPoints == {"idle", "waiting"}

\* the event loop is free to run a request handler
HandlerCanRun == loop_pc \in SuspensionPoints

\* for direction in ["north", "south", "east", "west"]
DirectionOrder == <<"north", "south", "east", "west">>

\* the locals when the for loop reaches sample[k]
NewFrame(sample, k, draw) ==
    [sample |-> sample, k |-> k, d |-> 1, draw |-> draw,
     before |-> intersections[sample[k]], tmp |-> <<>>]

\* while self.is_running holds; sample_size and the sample are drawn; with an
\* empty registry the for loop has nothing to do and the task sleeps
TickBegin ==
    /\ loop_pc = "waiting"
    /\ LoopCondition
    /\ Len(Prune(traffic_data_history, now)) + SampleSize(intersections) <= MaxHist
    /\ \E sample \in Samples(intersections) :
           IF sample = <<>>
           THEN loop_pc' = "waiting" /\ frame' = <<>>
           ELSE \E draw \in TickDraws :
                    /\ frame' = NewFrame(sample, 1, draw)
                    /\ loop_pc' = "direction"
    /\ stop_signalled' = FALSE
    /\ UNCHANGED <<intersections, traffic_data_history, system_metrics, is_running,
                   start_time, optimizer_running, simulator_running, now>>

\* one pass of the direction loop: traffic_volume[direction] and
\* wait_times[direction] are assigned in place
TickDirection ==
    /\ loop_pc = "direction"
    /\ LET id == frame.sample[frame.k]
           dir == DirectionOrder[frame.d]
           volume == NewVolume(intersections[id].traffic_volume, frame.draw.change)
           wait == NewWaitTimes(volume, frame.draw.noise)
           written == [intersections[id].traffic_volume EXCEPT ![dir] = volume[dir]]
       IN  /\ intersections' =
                  [intersections EXCEPT ![id].traffic_volume = written,
                                        ![id].wait_times[dir] = wait[dir]]
           /\ traffic_data_history' = WriteThrough(traffic_data_history, id, written)
    /\ IF frame.d < Len(DirectionOrder)
       THEN frame' = [frame EXCEPT !.d = frame.d + 1] /\ loop_pc' = "direction"
       ELSE frame' = frame /\ loop_pc' = "stamp"
    /\ UNCHANGED <<system_metrics, is_running, start_time, optimizer_running,
                   simulator_running, now, stop_signalled>>

\* intersection.last_updated = datetime.now()
TickStamp ==
    /\ loop_pc = "stamp"
    /\ intersections' =
           [intersections EXCEPT ![frame.sample[frame.k]].last_updated = now]
    /\ loop_pc' = "record"
    /\ UNCHANGED <<traffic_data_history, system_metrics, is_running, start_time,
                   optimizer_running, simulator_running, now, stop_signalled, frame>>

\* TrafficData(...) is built and add_traffic_data appends it to the list
TickRecord ==
    /\ loop_pc = "record"
    /\ LET id == frame.sample[frame.k]
           data == TrafficData(id, now, intersections[id].traffic_volume, DictCopy(id),
                               frame.draw.speed,
                               QueueLength(intersections[id].wait_times),
                               frame.draw.pedestrians, frame.draw.emergency)
       IN  traffic_data_history' = Append(traffic_data_history, data)
    /\ loop_pc' = "filter"
    /\ UNCHANGED <<intersections, system_metrics, is_running, start_time,
                   optimizer_running, simulator_running, now, stop_signalled, frame>>

\* the list comprehension of add_traffic_data builds the filtered list
TickFilter ==
    /\ loop_pc = "filter"
    /\ frame' = [frame EXCEPT !.tmp = Prune(traffic_data_history, now)]
    /\ loop_pc' = "store"
    /\ UNCHANGED <<intersections, traffic_data_history, system_metrics, is_running,
                   start_time, optimizer_running, simulator_running, now,
                   stop_signalled>>

\* self.traffic_data_history = <the filtered list>; then the next sampled
\* intersection, or asyncio.sleep(10) after the last
TickStore ==
    /\ loop_pc = "store"
    /\ traffic_data_history' = frame.tmp
    /\ IF frame.k < Len(frame.sample)
       THEN \E draw \in TickDraws :
                /\ frame' = NewFrame(frame.sample, frame.k + 1, draw)
                /\ loop_pc' = "direction"
       ELSE frame' = <<>> /\ loop_pc' = "waiting"
    /\ UNCHANGED <<intersections, system_metrics, is_running, start_time,
                   optimizer_running, simulator_running, now, stop_signalled>>

\* the request handlers and the clock, run when the event loop is free
HandlerInitialize == HandlerCanRun /\ Initialize
HandlerAddTrafficData == HandlerCanRun /\ AddTrafficData
HandlerCleanup == HandlerCanRun /\ Cleanup
HandlerAdvanceTime == HandlerCanRun /\ AdvanceTime

NextStatements ==
    \/ HandlerInitialize
    \/ HandlerAddTrafficData
    \/ HandlerCleanup
    \/ HandlerAdvanceTime
    \/ StartLoop
    \/ TickBegin
    \/ TickDirection
    \/ TickStamp
    \/ TickRecord
    \/ TickFilter
    \/ TickStore
    \/ LoopExit

StatementSpec == Init /\ [][NextStatements]_vars

\* A registry larger than the sample cap, as every registry initialize() builds
\* is (500 to 800 per city against a cap of 100): the state initialize() leaves
\* at time 0 with up to SampleCap + 1 intersections.
CoverageCount == SampleCap + 1

CoverageInit ==
    \E n \in MinPerCity..CoverageCount, volume \in InitVolumes, wait \in InitWaits :
        /\ intersections =
               InitializeCities(<<>>, Len(Cities), [k \in 1..Len(Cities) |-> n],
                                volume, wait, 0)
        /\ traffic_data_history = <<>>
        /\ system_metrics = [total_intersections |->
                                 CreatedCount(Len(Cities), [k \in 1..Len(Cities) |-> n]),
                             average_wait_time |-> 0,
                             efficiency_improvement |-> 0, system_uptime |-> 0]
        /\ is_running = TRUE
        /\ start_time = <<0>>
        /\ optimizer_running = FALSE
        /\ simulator_running = FALSE
        /\ loop_pc = "idle"
        /\ now = 0
        /\ stop_signalled = FALSE
        /\ frame = <<>>

NextCoverage ==
    \/ UpdateIntersectionTiming
    \/ AddTrafficData
    \/ Cleanup
    \/ StartLoop
    \/ LoopTick
    \/ LoopExit
    \/ AdvanceTime

CoverageSpec == CoverageInit /\ [][NextCoverage]_vars

----------------------------------------------------------------------------
(* Properties *)

Cutoff(t) == t - RetentionDays * HoursPerDay

\* no observation of the history is older than t - 7 days
NoneOlderThanCutoff(history, t) ==
    \A i \in 1..Len(history) : history[i].timestamp >= Cutoff(t)

\* the observations add_traffic_data may be called with from outside the loop
RequestData ==
    {TrafficData(id, now - age, [d \in Directions |-> 0], <<>>,
                 [d \in Directions |-> 0], [d \in Directions |-> 0], 0, 0) :
         id \in AddIds, age \in RequestAges}

\* an observation a loop tick created (external ones carry no speeds)
TickMade(data) == \E d \in Directions : data.average_speed[d] > 0

\* C1: when add_traffic_data completes, whether called from outside or by a loop
\* tick, no observation in the history is older than now - 7 days, whatever the
\* history held before (entries that aged past 7 days included), and a 30-day
\* query returns no such observation either.
C1_Retention ==
    /\ [](\A data \in RequestData :
            LET after == add_traffic_data(traffic_data_history, data, now)
            IN  /\ NoneOlderThanCutoff(after, now)
                /\ \A id \in RequestIds :
                       NoneOlderThanCutoff(
                           get_traffic_data(after, id, 30 * HoursPerDay, now), now))
    \* only add_traffic_data writes the history
    /\ [][traffic_data_history' # traffic_data_history
            => NoneOlderThanCutoff(traffic_data_history', now')]_vars

\* C1 witness: the history holds an observation that is more than 7 days old, and
\* appending a fresh one removes it
C1_Witness ==
    /\ \E i \in 1..Len(traffic_data_history) :
           traffic_data_history[i].timestamp < Cutoff(now)
    /\ \E data \in RequestData :
           /\ data.timestamp = now
           /\ add_traffic_data(traffic_data_history, data, now) = <<data>>

\* C2: update_intersection_timing with a plan holding a duration <= 0 fails and
\* leaves timing_plan unchanged, so every duration of every timing_plan is > 0.
C2_DurationsPositive ==
    \A id \in DOMAIN intersections :
        \A k \in DOMAIN intersections[id].timing_plan :
            intersections[id].timing_plan[k] > 0

\* C3: update_intersection_timing with an id that is not in the registry returns
\* False and leaves the registry as it was: no intersection added, no field changed.
C3_UnknownIdRejected ==
    \A id \in RequestIds \ DOMAIN intersections, plan \in RequestPlans :
        LET r == update_intersection_timing(intersections, id, plan, now)
        IN  /\ r.ret = FALSE
            /\ r.intersections = intersections

\* C3 witness: a populated registry that lacks the requested id, the call failing
C3_Witness ==
    /\ DOMAIN intersections # {}
    /\ UnknownId \notin DOMAIN intersections
    /\ \E plan \in RequestPlans :
           ~update_intersection_timing(intersections, UnknownId, plan, now).ret

\* C4: the loop begins a tick only while is_running is true: a run of the loop task
\* with the flag false changes no intersection and appends nothing; a tick that
\* begins runs over its whole sample (one observation per sampled intersection).
C4_NoTickWhenStopped ==
    /\ [][(~is_running /\ (LoopTick \/ LoopExit))
            => UNCHANGED <<intersections, traffic_data_history>>]_vars
    /\ [](\A sample \in IF loop_pc = "waiting" /\ LoopCondition
                         THEN Samples(intersections) ELSE {} :
          \A draws \in [1..Len(sample) -> TickDraws] :
              LET st == TickBody([intersections |-> intersections,
                                  history |-> traffic_data_history],
                                 sample, draws, Len(sample), now)
              IN  /\ Len(st.history)
                      = IF sample = <<>> THEN Len(traffic_data_history)
                        ELSE Len(Prune(traffic_data_history, now))
                             + SampleSize(intersections)
                  /\ \A k \in 1..Len(sample) :
                         st.intersections[sample[k]].last_updated = now)

\* C4 witness: cleanup() ran after a tick, the loop task still waits to be resumed
C4_Witness ==
    /\ ~is_running
    /\ loop_pc = "waiting"
    /\ stop_signalled
    /\ \E i \in 1..Len(traffic_data_history) : TickMade(traffic_data_history[i])

\* C5: once cleanup() has run on a system whose loop is active, the next run of the
\* loop task ends the loop, whatever was called in between.
C5_ExitsAtNextWakeup ==
    [][(stop_signalled /\ (LoopTick \/ LoopExit)) => loop_pc' = "idle"]_vars

\* what get_system_metrics returns in the current state
MetricsNow ==
    get_system_metrics(system_metrics, is_running, intersections,
                       traffic_data_history, start_time, now)

\* C6: in every reachable state get_system_metrics completes without failing,
\* efficiency_improvement is in [0, 15], and it is 0 iff average_wait_time is 0.
C6_EfficiencyNeverFails ==
    /\ ~MetricsNow.raised
    /\ MetricsNow.metrics.efficiency_improvement \in 0..EfficiencyCap
    /\ MetricsNow.metrics.efficiency_improvement = 0
           <=> MetricsNow.metrics.average_wait_time = 0

HealthNow ==
    health_check(is_running, intersections, traffic_data_history, start_time, now)

\* C8 as stated: all_systems_operational is true iff the running flag is true, the
\* registry is non-empty and both the optimizer and the simulator report running.
C8_HealthIffEnginesRunning ==
    HealthNow.all_systems_operational
        <=> (is_running /\ get_intersection_count > 0
             /\ optimizer_running /\ simulator_running)

\* C8 amended: all_systems_operational is true iff the running flag is true and the
\* registry is non-empty; the optimizer's and the simulator's running flags are not
\* consulted, so after optimizer.stop() and before cleanup() the verdict is still
\* operational.
C8_HealthIffRunning ==
    /\ HealthNow.all_systems_operational
           <=> (is_running /\ get_intersection_count > 0)
    /\ HealthNow.components.optimization_engine
    /\ HealthNow.components.ml_models

\* C8 witness: the optimizer is stopped, the simulator and the manager still run,
\* and health_check reports operational
C8_Witness ==
    /\ is_running
    /\ ~optimizer_running
    /\ simulator_running
    /\ HealthNow.all_systems_operational

\* C9: after any sequence of initialize() calls every id maps to one record (its
\* own) and each city has between MinPerCity and MaxPerCity intersections, never
\* the sum of two draws.
C9_NoDuplicates ==
    /\ \A id \in DOMAIN intersections : intersections[id].id = id
    /\ \A k \in 1..Len(Cities) :
           LET n == Cardinality(get_intersections_by_city(Cities[k]))
           IN  IF start_time = <<>> THEN n = 0
               ELSE MinPerCity <= n /\ n <= MaxPerCity

\* C9 witness: initialize() ran twice, the second time with a smaller draw (the
\* recorded total is that of the last call), after cleanup()
C9_Witness ==
    /\ ~is_running
    /\ get_intersection_count = MaxPerCity
    /\ system_metrics.total_intersections < MaxPerCity

\* C10: whenever initialize() completes, the recorded
\* system_metrics["total_intersections"] equals the number of intersections in
\* the registry.
C10_RecordedTotal ==
    [][Initialize
         => system_metrics'.total_intersections
                = Cardinality(DOMAIN intersections')]_vars

\* C11: after initialize() and any number of ticks interleaved with the other
\* operations, every traffic_volume[d] and every wait_times[d] of every
\* intersection is >= 0.
C11_NonNegative ==
    \A id \in DOMAIN intersections :
        \A d \in Directions :
            /\ intersections[id].traffic_volume[d] >= 0
            /\ intersections[id].wait_times[d] >= 0

\* C11 witness: two ticks drew -10 and -5 for an intersection: the second volume
\* (0 - 10) and the wait times (0 - 5) were clamped at 0
C11_Witness ==
    \E id \in DOMAIN intersections :
        /\ \A d \in Directions :
               /\ intersections[id].traffic_volume[d] = 0
               /\ intersections[id].wait_times[d] = 0
        /\ \E i, j \in 1..Len(traffic_data_history) :
               /\ i < j
               /\ TickMade(traffic_data_history[i])
               /\ TickMade(traffic_data_history[j])
               /\ traffic_data_history[i].intersection_id = id
               /\ traffic_data_history[j].intersection_id = id
               /\ \A d \in Directions :
                      /\ traffic_data_history[i].vehicle_count[d] = 0
                      /\ traffic_data_history[j].vehicle_count[d] = 0

\* C12: in every reachable state the key sets of signal_states, traffic_volume
\* and wait_times of every intersection are exactly {north, south, east, west}.
C12_DirectionKeys ==
    \A id \in DOMAIN intersections :
        /\ DOMAIN intersections[id].signal_states = Directions
        /\ DOMAIN intersections[id].traffic_volume = Directions
        /\ DOMAIN intersections[id].wait_times = Directions

\* C12 witness: an intersection that a tick rewrote and whose timing plan was
\* replaced, after cleanup()
C12_Witness ==
    /\ ~is_running
    /\ \E id \in DOMAIN intersections :
           /\ intersections[id].timing_plan # DefaultTimingPlan
           /\ intersections[id].traffic_volume # [d \in Directions |-> 10]
           /\ DOMAIN intersections[id].signal_states = Directions

\* number of observations of the history that belong to intersection id
ObsCount(history, id) ==
    Cardinality({i \in 1..Len(history) : history[i].intersection_id = id})

\* the ids for which a step appended one observation to the pruned history
GotObservation ==
    {id \in DOMAIN intersections :
        ObsCount(traffic_data_history', id)
            = ObsCount(Prune(traffic_data_history, now), id) + 1}

\* C13: one tick on a registry of N intersections gives exactly min(SampleCap, N)
\* distinct intersections one new observation each and refreshes their
\* last_updated; no other intersection gets an observation.
C13_TickCoverage ==
    [][LoopTick
         => /\ Cardinality(GotObservation)
                   = Min(SampleCap, Cardinality(DOMAIN intersections))
            /\ Len(traffic_data_history')
                   = Len(Prune(traffic_data_history, now)) + Cardinality(GotObservation)
            /\ \A id \in GotObservation : intersections'[id].last_updated = now
            /\ \A id \in DOMAIN intersections \ GotObservation :
                   ObsCount(traffic_data_history', id)
                       = ObsCount(Prune(traffic_data_history, now), id)]_vars

\* C13 witness: a registry larger than the cap after a tick at hour 24: SampleCap
\* intersections carry the new stamp and one observation each, one intersection
\* has neither
C13_Witness ==
    /\ Cardinality(DOMAIN intersections) > SampleCap
    /\ now > 0
    /\ Cardinality({id \in DOMAIN intersections :
                       /\ intersections[id].last_updated = now
                       /\ ObsCount(traffic_data_history, id) = 1}) = SampleCap
    /\ \E id \in DOMAIN intersections :
           /\ intersections[id].last_updated < now
           /\ ObsCount(traffic_data_history, id) = 0
    /\ \A i \in 1..Len(traffic_data_history) : TickMade(traffic_data_history[i])

\* positions of the history that hold an observation of id newer than now - hours
Matching(id, hours) ==
    {i \in 1..Len(traffic_data_history) :
        /\ traffic_data_history[i].intersection_id = id
        /\ traffic_data_history[i].timestamp > now - hours}

\* the k-th smallest element of a set of positions
KthOf(M, k) == CHOOSE i \in M : Cardinality({j \in M : j < i}) = k - 1

\* C16: get_traffic_data(id, hours) returns exactly the observations of the history
\* with that id and a timestamp newer than now - hours, in insertion order, and
\* the empty sequence for an unknown id.
C16_HistoryQuery ==
    \A id \in RequestIds, hours \in RequestHours :
        LET r == get_traffic_data(traffic_data_history, id, hours, now)
            M == Matching(id, hours)
        IN  /\ Len(r) = Cardinality(M)
            /\ \A k \in 1..Len(r) : r[k] = traffic_data_history[KthOf(M, k)]
            /\ id = UnknownId => r = <<>>

\* C16 witness: an observation exactly DefaultLookbackHours old and a newer one of
\* the same intersection: the default query returns the newer one only, the 30-day
\* query both
C16_Witness ==
    \E id \in RequestIds :
        /\ \E i \in 1..Len(traffic_data_history) :
               /\ traffic_data_history[i].intersection_id = id
               /\ traffic_data_history[i].timestamp = now - DefaultLookbackHours
        /\ Len(get_traffic_data(traffic_data_history, id, DefaultLookbackHours, now)) = 1
        /\ Len(get_traffic_data(traffic_data_history, id, 30 * HoursPerDay, now)) = 2
        /\ get_traffic_data(traffic_data_history, UnknownId, 30 * HoursPerDay, now) = <<>>

\* C17: cleanup() on a system that is not running changes nothing: the flag stays
\* false and the registry, the history, start_time and the stored metrics are
\* as before.
C17_StopIdempotent ==
    [][(~is_running /\ Cleanup)
         => /\ ~is_running'
            /\ UNCHANGED <<intersections, traffic_data_history, start_time,
                           system_metrics>>]_vars

\* C17 witness: a stopped system that had run: the registry and the history are
\* populated, start_time is set, the loop task has returned
C17_Witness ==
    /\ ~is_running
    /\ start_time # <<>>
    /\ loop_pc = "idle"
    /\ DOMAIN intersections # {}
    /\ \E i \in 1..Len(traffic_data_history) : TickMade(traffic_data_history[i])

\* C18: every observation a tick appends has, for every direction,
\* queue_length = floor(wait_times / 5) and vehicle_count = traffic_volume of its
\* intersection as that tick wrote them.
C18_ObservationContent ==
    [][traffic_data_history' # traffic_data_history
         => \A i \in (Len(Prune(traffic_data_history, now)) + 1)
                         ..Len(traffic_data_history') :
                LET data == traffic_data_history'[i]
                    written == intersections'[data.intersection_id]
                IN  TickMade(data)
                        => \A d \in Directions :
                               /\ data.queue_length[d]
                                      = written.wait_times[d] \div QueueDivisor
                               /\ data.vehicle_count[d] = written.traffic_volume[d]]_vars

\* C18 witness: a tick wrote a wait time of 13 s and a volume of 20 on the north
\* approach and stored queue_length 2 and vehicle_count 20
C18_Witness ==
    \E i \in 1..Len(traffic_data_history) :
        /\ TickMade(traffic_data_history[i])
        /\ traffic_data_history[i].queue_length["north"] = 2
        /\ traffic_data_history[i].vehicle_count["north"] = 20
        /\ intersections[traffic_data_history[i].intersection_id].wait_times["north"]
               = 13

\* s is a prefix of t
IsPrefix(s, t) == Len(s) <= Len(t) /\ \A i \in 1..Len(s) : s[i] = t[i]

\* C19: a stored observation never changes: whenever the history changes, the
\* observations still inside the retention window are there as they were, in
\* their order, before anything appended.
C19_ObservationsImmutable ==
    [][traffic_data_history' # traffic_data_history
         => IsPrefix(Prune(traffic_data_history, now), traffic_data_history')]_vars

\* C19 witness: an intersection was ticked twice; the first observation still
\* shows the volumes of the first tick, which the intersection no longer has
C19_Witness ==
    \E i, j \in 1..Len(traffic_data_history) :
        /\ i < j
        /\ TickMade(traffic_data_history[i])
        /\ TickMade(traffic_data_history[j])
        /\ traffic_data_history[i].intersection_id
               = traffic_data_history[j].intersection_id
        /\ traffic_data_history[j].vehicle_count
               = intersections[traffic_data_history[j].intersection_id].traffic_volume
        /\ traffic_data_history[i].vehicle_count
               # traffic_data_history[j].vehicle_count

\* C20: a tick changes only traffic_volume, wait_times and last_updated of the
\* intersections it sampled: signal_states, timing_plan, id, name and city of
\* every intersection and the whole record of every intersection that got no
\* observation stay as they were; and no step removes an id from the registry.
C20_TickFrame ==
    /\ [][LoopTick
            => \A id \in DOMAIN intersections :
                   /\ intersections'[id].signal_states = intersections[id].signal_states
                   /\ intersections'[id].timing_plan = intersections[id].timing_plan
                   /\ intersections'[id].id = intersections[id].id
                   /\ intersections'[id].name = intersections[id].name
                   /\ intersections'[id].city = intersections[id].city
                   /\ id \notin GotObservation
                          => intersections'[id] = intersections[id]]_vars
    /\ [][DOMAIN intersections \subseteq DOMAIN intersections']_vars

\* C20 witness: after a tick at hour 24 a sampled intersection has new volumes
\* and still the timing plan an update gave it, and an intersection that was not
\* sampled is as initialize() left it
C20_Witness ==
    /\ now > 0
    /\ loop_pc = "waiting"
    /\ \E id \in DOMAIN intersections :
           /\ intersections[id].last_updated = now
           /\ ObsCount(traffic_data_history, id) = 1
           /\ intersections[id].traffic_volume # [d \in Directions |-> 10]
           /\ intersections[id].timing_plan # DefaultTimingPlan
    /\ \E id \in DOMAIN intersections :
           /\ intersections[id].last_updated = 0
           /\ ObsCount(traffic_data_history, id) = 0
           /\ intersections[id].traffic_volume = [d \in Directions |-> 10]

\* C14: append-then-prune is one step for every other add_traffic_data call and
\* for the loop: whenever an add_traffic_data completes (the loop's, at its
\* assignment of the filtered list, or a request handler's), every observation
\* that was in the list and is inside the 7-day window is still there, the
\* loop's own observation included, and none in the list is older than the window.
C14_AtomicAppendPrune ==
    /\ [][(TickStore \/ HandlerAddTrafficData)
            => /\ NoneOlderThanCutoff(traffic_data_history', now)
               /\ IsPrefix(Prune(traffic_data_history, now), traffic_data_history')]_vars
    /\ [][TickStore
            => /\ traffic_data_history' = Prune(traffic_data_history, now)
               /\ traffic_data_history' # <<>>
               /\ LET last == traffic_data_history'[Len(traffic_data_history')]
                  IN  /\ last.intersection_id = frame.sample[frame.k]
                      /\ last.timestamp = now]_vars

\* C14 witness: the loop is asleep after a tick; its observation and one a request
\* handler appended afterwards are both in the history
C14_Witness ==
    /\ loop_pc = "waiting"
    /\ is_running
    /\ \E i, j \in 1..Len(traffic_data_history) :
           /\ i < j
           /\ TickMade(traffic_data_history[i])
           /\ ~TickMade(traffic_data_history[j])

\* what the tick body makes of the intersection it started from
FrameTarget ==
    LET id == frame.sample[frame.k]
    IN  TickIntersection([intersections |-> [i \in {id} |-> frame.before],
                          history |-> <<>>], id, frame.draw, now).intersections[id]

\* the intersection is in the middle of a tick body: neither as the body found it
\* nor as the body leaves it
Partial(id) ==
    /\ loop_pc \in {"direction", "stamp", "record", "filter", "store"}
    /\ frame.sample[frame.k] = id
    /\ get_intersection(id) # <<frame.before>>
    /\ get_intersection(id) # <<FrameTarget>>

\* C15: whenever a reader (get_intersection, get_intersections_by_city,
\* get_system_metrics) can run, no intersection is in a partially updated state
\* of a tick.
C15_NoPartialRead ==
    HandlerCanRun => \A id \in DOMAIN intersections : ~Partial(id)

\* C15 witness: a reader can run while the loop is asleep between two ticks, and
\* get_intersection returns an intersection the last tick rewrote completely
C15_Witness ==
    /\ HandlerCanRun
    /\ loop_pc = "waiting"
    /\ is_running
    /\ \E i \in 1..Len(traffic_data_history) :
           LET data == traffic_data_history[i]
           IN  /\ TickMade(data)
               /\ get_intersection(data.intersection_id) # <<>>
               /\ get_intersection(data.intersection_id)[1].traffic_volume
                      = data.vehicle_count
               /\ data.vehicle_count["north"] = 20
               /\ get_intersection(data.intersection_id)[1].wait_times["west"] = 9
               /\ get_intersection(data.intersection_id)[1].last_updated
                      = data.timestamp

====
